---- MODULE Spec2Model ----
(***************************************************************************)
(* Model of main.py: the audio -> JSON-LD extraction pipeline.             *)
(*   wait_for_file_active, generate_with_retry, extract_text_from_response,*)
(*   extract_json_from_text and their sequencing in                        *)
(*   extract_schema_from_audio.                                            *)
(* Python strings are sequences of one-character strings.                  *)
(***************************************************************************)
EXTENDS Integers, Sequences, FiniteSets, TLC

(***************************************************************************)
(* Strings                                                                 *)
(***************************************************************************)
\* The backtick character (the lexer has no backtick inside a string).
BT == "BACKTICK"
NL == "\n"
SP == " "
QT == "\""

\* F applied to the value of v: the argument is evaluated once, before the
\* call, as Python evaluates arguments.
Call(F(_), v) == CHOOSE r \in {F(x) : x \in {v}} : TRUE

\* The characters str.strip() removes (the ones the model's alphabet has).
Whitespace == {SP, NL}

\* s[i..j] as Python's s[i-1:j]; empty when j < i.
Slice(s, i, j) == IF j < i THEN <<>> ELSE SubSeq(s, i, j)

\* pat occurs in s starting at index i.
MatchAt(s, pat, i) ==
    /\ i >= 1
    /\ i + Len(pat) - 1 <= Len(s)
    /\ \A k \in 1..Len(pat) : s[i + k - 1] = pat[k]

\* str.find: the least index >= from where pat occurs, 0 when none.
Find(str, pat, from) ==
    Call(LAMBDA s :
        LET hits == {i \in from..(Len(s) - Len(pat) + 1) : MatchAt(s, pat, i)}
        IN  IF hits = {} THEN 0 ELSE CHOOSE i \in hits : \A j \in hits : i <= j,
      str)

\* pat in s
Contains(s, pat) == Find(s, pat, 1) # 0

\* str.lower() on the letters of the alphabet.
LowerChar(c) ==
    CASE c = "O" -> "o" [] c = "V" -> "v" [] c = "E" -> "e" [] c = "R" -> "r"
      [] c = "L" -> "l" [] c = "A" -> "a" [] c = "D" -> "d"
      [] OTHER -> c

Lower(s) == [i \in 1..Len(s) |-> LowerChar(s[i])]

\* str.strip()
Strip(s) ==
    LET keep == {i \in 1..Len(s) : s[i] \notin Whitespace}
    IN  IF keep = {} THEN <<>>
        ELSE LET lo == CHOOSE i \in keep : \A j \in keep : i <= j
                 hi == CHOOSE i \in keep : \A j \in keep : i >= j
             IN  SubSeq(s, lo, hi)

\* A split that does not cut at the separator.
SplitFirstWhole(s, sep) == s

\* text.split(sep)[0]: everything before the first sep (all of it when none).
SplitFirst(s, sep) ==
    LET p == Find(s, sep, 1)
    IN  IF p = 0 THEN s ELSE Slice(s, 1, p - 1)

\* text.split(sep)[1], defined when sep occurs: what lies between the first
\* sep and the next one (or the end).
SplitSecond(s, sep) ==
    LET p    == Find(s, sep, 1)
        rest == Slice(s, p + Len(sep), Len(s))
    IN  SplitFirst(rest, sep)

\* text.replace(pat, ""): non-overlapping occurrences removed, left to right.
RECURSIVE Remove(_, _)
Remove(str, pat) ==
    Call(LAMBDA s :
        LET p == Find(s, pat, 1)
        IN  IF p = 0 THEN s
            ELSE Slice(s, 1, p - 1) \o Remove(Slice(s, p + Len(pat), Len(s)), pat),
      str)

Fence     == <<BT, BT, BT>>
JsonFence == <<BT, BT, BT, "j", "s", "o", "n">>

(***************************************************************************)
(* JSON values and json.loads                                              *)
(* A value is a record [kind, str, num, items]; the items of an object are *)
(* its (key, value) pairs in insertion order, the items of an array carry  *)
(* an empty key.  The alphabet has no backslash, sign, fraction or         *)
(* exponent, so string escapes and non-integer numbers do not arise.       *)
(***************************************************************************)
JNull        == [kind |-> "null",   str |-> <<>>, num |-> 0, items |-> <<>>]
JTrue        == [kind |-> "true",   str |-> <<>>, num |-> 0, items |-> <<>>]
JFalse       == [kind |-> "false",  str |-> <<>>, num |-> 0, items |-> <<>>]
JString(t)   == [kind |-> "string", str |-> t,    num |-> 0, items |-> <<>>]
JNumber(n)   == [kind |-> "number", str |-> <<>>, num |-> n, items |-> <<>>]
JArray(its)  == [kind |-> "array",  str |-> <<>>, num |-> 0, items |-> its]
JObject(its) == [kind |-> "object", str |-> <<>>, num |-> 0, items |-> its]

Item(k, v) == [key |-> k, val |-> v]

\* dict.setdefault(k, v): an existing key keeps its value.
SetKeyIfAbsent(items, k, v) ==
    IF \E i \in 1..Len(items) : items[i].key = k THEN items ELSE Append(items, Item(k, v))

\* dict[k] = v: an existing key keeps its position and takes the new value.
SetKey(items, k, v) ==
    IF \E i \in 1..Len(items) : items[i].key = k
    THEN [i \in 1..Len(items) |-> IF items[i].key = k THEN Item(k, v) ELSE items[i]]
    ELSE Append(items, Item(k, v))

HasKey(items, k) == \E i \in 1..Len(items) : items[i].key = k

GetKey(items, k) == items[CHOOSE i \in 1..Len(items) : items[i].key = k].val

Digits == {"0", "1", "2", "3", "4", "5", "6", "7", "8", "9"}

DigitVal(c) ==
    CASE c = "0" -> 0 [] c = "1" -> 1 [] c = "2" -> 2 [] c = "3" -> 3
      [] c = "4" -> 4 [] c = "5" -> 5 [] c = "6" -> 6 [] c = "7" -> 7
      [] c = "8" -> 8 [] c = "9" -> 9

\* A scan step: success with the value and the index after it, or failure.
Parsed(v, n) == [ok |-> TRUE, val |-> v, next |-> n]
ParseFail    == [ok |-> FALSE, val |-> JNull, next |-> 0]

\* What json.loads gives: the value, or ok = FALSE for json.JSONDecodeError.
Loaded(v)  == [ok |-> TRUE, val |-> v]
DecodeError == [ok |-> FALSE, val |-> JNull]

\* The decoder's whitespace skip: the least index >= i holding no whitespace.
SkipWs(s, i) ==
    LET stop == {j \in i..Len(s) : s[j] \notin Whitespace}
    IN  IF stop = {} THEN Len(s) + 1 ELSE CHOOSE j \in stop : \A k \in stop : j <= k

\* A string whose opening quote is at i - 1: up to the next quote; a raw
\* control character inside it is an error.
ScanString(s, i) ==
    LET q == Find(s, <<QT>>, i)
    IN  IF q = 0 \/ (\E j \in i..(q - 1) : s[j] = NL) THEN ParseFail
        ELSE Parsed(JString(Slice(s, i, q - 1)), q + 1)

\* The integer at i: "0", or a digit 1-9 and the digits after it.
RECURSIVE DigitsValue(_, _, _)
DigitsValue(s, i, acc) ==
    IF i <= Len(s) /\ s[i] \in Digits
    THEN DigitsValue(s, i + 1, acc * 10 + DigitVal(s[i]))
    ELSE Parsed(JNumber(acc), i)

ScanNumber(s, i) ==
    IF s[i] = "0" THEN Parsed(JNumber(0), i + 1) ELSE DigitsValue(s, i, 0)

RECURSIVE ScanValue(_, _), ScanMembers(_, _, _), ScanElements(_, _, _)

\* The value at i (scan_once).
ScanValue(s, at) ==
  Call(LAMBDA i :
    IF i > Len(s) THEN ParseFail
    ELSE CASE s[i] = QT  -> ScanString(s, i + 1)
           [] s[i] = "{" ->
                LET j == SkipWs(s, i + 1)
                IN  IF j <= Len(s) /\ s[j] = "}" THEN Parsed(JObject(<<>>), j + 1)
                    ELSE ScanMembers(s, j, <<>>)
           [] s[i] = "[" ->
                LET j == SkipWs(s, i + 1)
                IN  IF j <= Len(s) /\ s[j] = "]" THEN Parsed(JArray(<<>>), j + 1)
                    ELSE ScanElements(s, j, <<>>)
           [] s[i] \in Digits -> ScanNumber(s, i)
           [] MatchAt(s, <<"n", "u", "l", "l">>, i)      -> Parsed(JNull, i + 4)
           [] MatchAt(s, <<"t", "r", "u", "e">>, i)      -> Parsed(JTrue, i + 4)
           [] MatchAt(s, <<"f", "a", "l", "s", "e">>, i) -> Parsed(JFalse, i + 5)
           [] OTHER -> ParseFail,
    at)

\* The members of an object from the key at i on (JSONObject).
ScanMembers(s, i, acc) ==
    IF ~(i <= Len(s) /\ s[i] = QT) THEN ParseFail
    ELSE LET k == ScanString(s, i + 1)
         IN  IF ~k.ok THEN ParseFail
             ELSE LET c == SkipWs(s, k.next)
                  IN  IF ~(c <= Len(s) /\ s[c] = ":") THEN ParseFail
                      ELSE Call(LAMBDA v :
                               IF ~v.ok THEN ParseFail
                               ELSE LET e    == SkipWs(s, v.next)
                                        acc2 == SetKey(acc, k.val.str, v.val)
                                    IN  IF e > Len(s) THEN ParseFail
                                        ELSE IF s[e] = "}" THEN Parsed(JObject(acc2), e + 1)
                                        ELSE IF s[e] = ","
                                             THEN ScanMembers(s, SkipWs(s, e + 1), acc2)
                                        ELSE ParseFail,
                             ScanValue(s, SkipWs(s, c + 1)))

\* The elements of an array from the value at i on (JSONArray).
ScanElements(s, i, acc) ==
    Call(LAMBDA v :
        IF ~v.ok THEN ParseFail
        ELSE LET e    == SkipWs(s, v.next)
                 acc2 == Append(acc, Item(<<>>, v.val))
             IN  IF e > Len(s) THEN ParseFail
                 ELSE IF s[e] = "]" THEN Parsed(JArray(acc2), e + 1)
                 ELSE IF s[e] = "," THEN ScanElements(s, SkipWs(s, e + 1), acc2)
                 ELSE ParseFail,
      ScanValue(s, i))

\* json.loads(s): one value, whitespace around it, nothing after it.
JsonLoads(s) ==
    Call(LAMBDA v :
        IF v.ok /\ SkipWs(s, v.next) = Len(s) + 1 THEN Loaded(v.val) ELSE DecodeError,
      ScanValue(s, SkipWs(s, 1)))

(***************************************************************************)
(* extract_json_from_text, lines 74-86                                     *)
(***************************************************************************)
\* The string handed to json.loads (lines 77-80).
CleanText(text) ==
    Call(LAMBDA inner : Call(Strip, Remove(inner, Fence)),
         IF Contains(text, JsonFence)
         THEN SplitFirst(SplitSecond(text, JsonFence), Fence)
         ELSE text)

\* The parsed value, or the decode error (line 81).
extract_json_from_text(text) == Call(JsonLoads, CleanText(text))

(***************************************************************************)
(* extract_text_from_response, lines 56-71                                 *)
(* A part is [attr, text]: attr = "str" when part.text is a string, "none" *)
(* when the attribute exists and holds None, "absent" when the part has no *)
(* text attribute.                                                         *)
(***************************************************************************)
TextPart(t) == [attr |-> "str",    text |-> t]
NonePart    == [attr |-> "none",   text |-> <<>>]
AbsentPart  == [attr |-> "absent", text |-> <<>>]

\* The parts of all candidates in encountered order (the two nested loops).
RECURSIVE AllParts(_)
AllParts(candidates) ==
    IF candidates = <<>> THEN <<>>
    ELSE Head(candidates) \o AllParts(Tail(candidates))

\* hasattr(part, "text") holds and text += part.text raises TypeError.
ConcatRaises(parts) == \E i \in 1..Len(parts) : parts[i].attr = "none"

\* text += part.text over the parts that have the attribute.
RECURSIVE ConcatText(_)
ConcatText(parts) ==
    IF parts = <<>> THEN <<>>
    ELSE (IF Head(parts).attr = "str" THEN Head(parts).text ELSE <<>>)
         \o ConcatText(Tail(parts))

\* The text returned (line 66), when no part raises.
extract_text_from_response(response) == Strip(ConcatText(AllParts(response.candidates)))

(***************************************************************************)
(* generate_with_retry, lines 33-53: classification and backoff            *)
(***************************************************************************)
\* Resolution of random.uniform(0, 1): the draw is j / JitterSteps for
\* j in 0 .. JitterSteps - 1; delays are counted in 1 / JitterSteps seconds.
JitterSteps == 4

Msg503        == <<"5", "0", "3">>
MsgOverloaded == <<"o", "v", "e", "r", "l", "o", "a", "d", "e", "d">>

\* Line 46.
IsTransient(msg) == Contains(msg, Msg503) \/ Contains(Lower(msg), MsgOverloaded)

RECURSIVE Pow2(_)
Pow2(n) == IF n = 0 THEN 1 ELSE 2 * Pow2(n - 1)

\* A backoff that grows linearly: 2 * attempt in place of 2 ** attempt.
BackoffLinear(attempt, j) == 2 * attempt * JitterSteps + j

\* Line 47: (2 ** attempt) + random.uniform(0, 1), the draw being j.
Backoff(attempt, j) == Pow2(attempt) * JitterSteps + j

\* The draws random.uniform(0, 1) can give.
JitterDraws == 0..(JitterSteps - 1)

(***************************************************************************)
(* The remote service: what its calls can return or raise                  *)
(***************************************************************************)
\* file_info.state.name as reported by client.files.get.
FileStates == {"PROCESSING", "ACTIVE", "FAILED"}

\* str(e) of the exceptions generate_content raises.
MsgOverloadedUpper == <<"O", "V", "E", "R", "L", "O", "A", "D", "E", "D">>
MsgOverloadedMixed == <<"O", "v", "e", "r", "l", "o", "a", "d", "e", "d">>
MsgErr503          == <<"e", "r", "r", SP, "5", "0", "3">>
Msg500             == <<"5", "0", "0">>
MsgLoaded          == <<"l", "o", "a", "d", "e", "d">>
ErrorMessages ==
    {Msg503, MsgErr503, MsgOverloaded, MsgOverloadedUpper, MsgOverloadedMixed,
     Msg500, MsgLoaded}

\* Replies of the model: JSON texts ...
TxtObject == <<"{", QT, "a", QT, ":", "1", "}">>
TxtEmpty  == <<"{", "}">>
TxtTick   == <<"{", QT, "a", QT, ":", QT, BT, QT, "}">>
TxtFenced == <<"{", QT, "a", QT, ":", QT, BT, BT, BT, QT, "}">>
TxtArray  == <<"[", "1", "]">>
TxtNull   == <<"n", "u", "l", "l">>
TxtString == <<QT, "a", QT>>
JsonTexts == {TxtObject, TxtEmpty, TxtTick, TxtFenced, TxtArray, TxtNull, TxtString}

\* ... and texts that are not JSON.
TxtNotJson == <<"n", "o", "t", SP, "j", "s", "o", "n">>
TxtBlank   == <<>>
PlainTexts == JsonTexts \cup {TxtNotJson, TxtBlank}

\* JSON of the remaining kinds, and an object that has a "metrics" key.
TxtNumber  == <<"7">>
TxtTrue    == <<"t", "r", "u", "e">>
TxtMetrics ==
    <<"{", QT, "m", "e", "t", "r", "i", "c", "s", QT, ":", "1", ",",
      QT, "a", QT, ":", "1", "}">>

\* The ways the model wraps its reply.
WrapJson(t)     == JsonFence \o <<NL>> \o t \o <<NL>> \o Fence
WrapBare(t)     == Fence \o <<NL>> \o t \o <<NL>> \o Fence
WrapProse(t)    == <<"x", NL>> \o WrapJson(t) \o <<NL>> \o TxtEmpty
WrapUnclosed(t) == JsonFence \o <<NL>> \o t
WrapSpaces(t)   == <<SP, NL>> \o t \o <<NL>>
\* Two json-fenced blocks, one after the other.
WrapTwice(t, u) == WrapJson(t) \o <<NL>> \o WrapJson(u)

ReplyTexts ==
    PlainTexts
    \cup {WrapJson(t) : t \in PlainTexts} \cup {WrapBare(t) : t \in PlainTexts}
    \cup {WrapProse(t) : t \in PlainTexts} \cup {WrapUnclosed(t) : t \in PlainTexts}
    \cup {WrapSpaces(t) : t \in PlainTexts}
    \cup {TxtNumber, TxtTrue, TxtMetrics, WrapTwice(TxtObject, TxtEmpty)}

\* usage_metadata: a counter is [set, n], set = FALSE standing for None;
\* NoUsage stands for a response whose usage_metadata is None.
Count(n)  == [set |-> TRUE, n |-> n]
NoCount   == [set |-> FALSE, n |-> 0]
Usage(i, o) == [set |-> TRUE, prompt_token_count |-> i, candidates_token_count |-> o]
NoUsage     == [set |-> FALSE, prompt_token_count |-> NoCount,
                candidates_token_count |-> NoCount]

\* Token counts the service reports beside the usual (100, 50).
UsageExamples ==
    {Usage(Count(1000000), Count(0)), Usage(Count(0), Count(1000000)),
     Usage(Count(500000), Count(200000)), Usage(Count(0), Count(1)),
     Usage(Count(7), Count(3)), Usage(NoCount, Count(3)), NoUsage}

Response(cands, usage) == [candidates |-> cands, usage_metadata |-> usage]

\* One candidate with one text part per reply text, and replies spread over
\* several parts and candidates, with parts that carry no text.
Responses ==
    {Response(<< <<TextPart(t)>> >>, Usage(Count(100), Count(50))) : t \in ReplyTexts}
    \cup {Response(<< <<TextPart(JsonFence \o <<NL>>), AbsentPart>>,
                      <<TextPart(TxtObject), TextPart(<<NL>> \o Fence)>> >>,
                   Usage(Count(100), NoCount)),
          Response(<< <<TextPart(TxtObject), NonePart>> >>,
                   Usage(NoCount, Count(50))),
          Response(<< >>, Usage(Count(0), Count(0)))}
    \cup {Response(<< <<TextPart(TxtObject)>> >>, u) : u \in UsageExamples}

NoResponse == Response(<< >>, NoUsage)

(***************************************************************************)
(* Program constants and the bound of the environment                      *)
(***************************************************************************)
\* wait_for_file_active(..., timeout=180), seconds.
DefaultTimeout == 180
\* time.sleep(2) between polls, seconds.
PollInterval == 2
\* generate_with_retry(..., max_retries=5).
DefaultMaxRetries == 5
\* The longest a client.files.get call takes, seconds.
MaxPollTime == 2

(***************************************************************************)
(* Exceptions                                                              *)
(***************************************************************************)
Exc(type, msg) == [type |-> type, msg |-> msg]
NoError == Exc("", <<>>)

MsgTimedOut ==
    <<"F", "i", "l", "e", SP, "p", "r", "o", "c", "e", "s", "s", "i", "n", "g", SP,
      "t", "i", "m", "e", "d", SP, "o", "u", "t">>
MsgMaxRetries ==
    <<"M", "a", "x", SP, "r", "e", "t", "r", "i", "e", "s", SP,
      "e", "x", "c", "e", "e", "d", "e", "d">>

\* Line 30.
TimeoutError == Exc("TimeoutError", MsgTimedOut)
\* Line 53.
RetriesExhausted == Exc("RuntimeError", MsgMaxRetries)
\* What client.files.upload and client.files.get raise when they fail.
UploadError == Exc("UploadError", <<>>)
PollError   == Exc("PollError", <<>>)
\* What generate_content raises, with its message.
ServiceError(msg) == Exc("ServiceError", msg)
\* json.loads on text that is no JSON.
JSONDecodeError == Exc("JSONDecodeError", <<>>)
\* str += None, and item assignment on a value that is no dict.
TypeError == Exc("TypeError", <<>>)
\* An attribute read on None.
AttributeError == Exc("AttributeError", <<>>)

(***************************************************************************)
(* File descriptors                                                        *)
(***************************************************************************)
\* polled_at: the waiter's clock when client.files.get returned the
\* descriptor, -1 for the descriptor client.files.upload returned.
Descriptor(state, at) == [state |-> state, polled_at |-> at]
NoFile == Descriptor("", -1)

(***************************************************************************)
(* Metrics, lines 133-153                                                  *)
(***************************************************************************)
MetricsKey == <<"m", "e", "t", "r", "i", "c", "s">>

\* usage.x or 0
OrZero(c) == IF c.set THEN c.n ELSE 0

\* A cost that is cut to whole millionths instead of rounded.
CostTruncated(i, o) == {(30 * i + 250 * o) \div 100}

\* round((i * 0.30 + o * 2.50) / 1_000_000, 6) in millionths of a dollar:
\* (30 i + 250 o) / 100 rounded to the nearest integer.  When the exact
\* value lies half way the binary quotient lies on either side and round
\* gives either neighbour ((0, 1) gives 0.000003, (15, 0) gives 0.000004).
CostRoundings(i, o) ==
    LET n == 30 * i + 250 * o
        q == n \div 100
        r == n % 100
    IN  IF r < 50 THEN {q} ELSE IF r > 50 THEN {q + 1} ELSE {q, q + 1}

\* The durations time.perf_counter() measures for the upload, the inference,
\* the text extraction and the JSON parsing, in whole seconds (which
\* round(x, 2) leaves as they are).
StageTimes == {0, 1}

\* Lines 145-152; total_execution is the sum of the stages.
Timings(upload_time, processing_time, inference_time, text_time, json_time) ==
    JObject(<< Item(<<"upload">>, JNumber(upload_time)),
               Item(<<"file_processing">>, JNumber(processing_time)),
               Item(<<"inference">>, JNumber(inference_time)),
               Item(<<"text_extraction">>, JNumber(text_time)),
               Item(<<"json_parsing">>, JNumber(json_time)),
               Item(<<"total_execution">>,
                    JNumber(upload_time + processing_time + inference_time
                            + text_time + json_time)) >>)

\* Lines 141-153.
Metrics(usage, cost, timings) ==
    JObject(<< Item(<<"input_tokens">>, JNumber(OrZero(usage.prompt_token_count))),
               Item(<<"output_tokens">>, JNumber(OrZero(usage.candidates_token_count))),
               Item(<<"estimated_cost_usd">>, JNumber(cost)),
               Item(<<"timings_seconds">>, timings) >>)

(***************************************************************************)
(* State                                                                   *)
(***************************************************************************)
VARIABLES
    pc,            \* where extract_schema_from_audio stands
    timeout,       \* wait_for_file_active's timeout
    max_retries,   \* generate_with_retry's max_retries
    stages,        \* the stages started so far, in order
    uploaded_file, \* what client.files.upload returned
    elapsed,       \* time.perf_counter() - start in wait_for_file_active
    file_info,     \* what the last client.files.get returned
    slept,         \* argument of the time.sleep since the last poll, 0 if none
    active_file,   \* what wait_for_file_active returned
    attempt,       \* the loop variable of generate_with_retry
    invocations,   \* calls of generate_content made
    exc,           \* str(e) of the exception being handled
    wait,          \* the delay computed at line 47
    delays,        \* backoff sleeps taken
    response,      \* what generate_with_retry returned
    text,          \* what extract_text_from_response returned
    cleaned,       \* the string extract_json_from_text handed to json.loads
    schema,        \* what extract_json_from_text returned
    result,        \* what extract_schema_from_audio returned
    error          \* the exception that left extract_schema_from_audio

vars == <<pc, timeout, max_retries, stages, uploaded_file, elapsed, file_info,
          slept, active_file, attempt, invocations, exc, wait, delays, response,
          text, cleaned, schema, result, error>>

waiterVars == <<elapsed, file_info, slept, active_file>>
retryVars  == <<attempt, invocations, exc, wait, delays, response>>
parseVars  == <<text, cleaned, schema, result>>

\* An exception leaves extract_schema_from_audio: nothing catches it there.
Raise(e) == pc' = "raised" /\ error' = e

Init ==
    /\ pc = "upload"
    /\ timeout = DefaultTimeout
    /\ max_retries = DefaultMaxRetries
    /\ stages = <<"upload">>
    /\ uploaded_file = NoFile
    /\ elapsed = 0
    /\ file_info = NoFile
    /\ slept = 0
    /\ active_file = NoFile
    /\ attempt = 0
    /\ invocations = 0
    /\ exc = <<>>
    /\ wait = 0
    /\ delays = 0
    /\ response = NoResponse
    /\ text = <<>>
    /\ cleaned = <<>>
    /\ schema = JNull
    /\ result = JNull
    /\ error = NoError

(***************************************************************************)
(* extract_schema_from_audio, lines 90-156, step by step                   *)
(***************************************************************************)
\* Lines 96-103: client.files.upload returns the descriptor or raises; on
\* success wait_for_file_active is entered and takes its start time.
upload ==
    /\ pc = "upload"
    /\ \/ /\ uploaded_file' = Descriptor("PROCESSING", -1)
          /\ elapsed' = 0
          /\ stages' = Append(stages, "activate")
          /\ pc' = "wait_check"
          /\ UNCHANGED error
       \/ /\ Raise(UploadError)
          /\ UNCHANGED <<uploaded_file, elapsed, stages>>
    /\ UNCHANGED <<timeout, max_retries, file_info, slept, active_file>>
    /\ UNCHANGED <<retryVars, parseVars>>

\* A loop condition that admits one more round at the deadline itself.
BeforeDeadlineInclusive(e, t) == e <= t

\* Line 20: the loop condition.
BeforeDeadline(e, t) == e < t

\* Lines 20 and 30: another round while the deadline has not passed, else
\* TimeoutError.
wait_check ==
    /\ pc = "wait_check"
    /\ IF BeforeDeadline(elapsed, timeout)
       THEN pc' = "wait_poll" /\ UNCHANGED error
       ELSE Raise(TimeoutError)
    /\ UNCHANGED <<timeout, max_retries, stages, uploaded_file>>
    /\ UNCHANGED <<waiterVars, retryVars, parseVars>>

\* Ending the wait on any state that is not PROCESSING.
IsActiveOrFailed(state) == state # "PROCESSING"

\* Line 22: the state that ends the wait.
IsActive(state) == state = "ACTIVE"

\* Returning the descriptor of the upload in place of the polled one.
ReturnedUploaded(info, uploaded) == uploaded

\* Line 25: the descriptor wait_for_file_active returns.
Returned(info, uploaded) == info

\* Lines 21-27: client.files.get takes d seconds and reports a state or
\* raises; ACTIVE returns the descriptor and generate_with_retry is entered.
wait_poll ==
    /\ pc = "wait_poll"
    /\ \E d \in 0..MaxPollTime :
         /\ elapsed' = elapsed + d
         /\ \/ \E s \in FileStates :
                 /\ file_info' = Descriptor(s, elapsed')
                 /\ slept' = 0
                 /\ IF IsActive(s)
                    THEN /\ active_file' = Returned(file_info', uploaded_file)
                         /\ stages' = Append(stages, "infer")
                         /\ pc' = "generate"
                    ELSE /\ pc' = "wait_sleep"
                         /\ UNCHANGED <<active_file, stages>>
                 /\ UNCHANGED error
            \/ /\ Raise(PollError)
               /\ UNCHANGED <<file_info, slept, active_file, stages>>
    /\ UNCHANGED <<timeout, max_retries, uploaded_file>>
    /\ UNCHANGED <<retryVars, parseVars>>

\* A poll loop that does not wait between polls.
PollSleepNone(e) == 0

\* Line 28: the argument of time.sleep.
PollSleep(e) == PollInterval

\* Line 28.
wait_sleep ==
    /\ pc = "wait_sleep"
    /\ slept' = PollSleep(elapsed)
    /\ elapsed' = elapsed + slept'
    /\ pc' = "wait_check"
    /\ UNCHANGED <<timeout, max_retries, stages, uploaded_file, file_info, active_file>>
    /\ UNCHANGED <<retryVars, parseVars, error>>

\* A loop that runs one attempt too many.
HasAttemptOffByOne(a, m) == a <= m

\* Line 36: range(max_retries) has another attempt.
HasAttempt(a, m) == a < m

\* An except clause that retries whatever the exception says.
RetriesAlways(msg) == TRUE

\* What the except clause does with the exception (lines 45-51).
Retries(msg) == IsTransient(msg)

\* Lines 36-51: one attempt.  generate_content returns a response, which
\* generate_with_retry returns, or raises: a transient error computes the
\* delay, any other error is raised again.
generate_call ==
    /\ pc = "generate"
    /\ HasAttempt(attempt, max_retries)
    /\ invocations' = invocations + 1
    /\ \/ \E r \in Responses :
            /\ response' = r
            /\ attempt' = 0
            /\ exc' = <<>>
            /\ wait' = 0
            /\ stages' = Append(stages, "parse")
            /\ pc' = "extract_text"
            /\ UNCHANGED error
       \/ \E msg \in ErrorMessages :
            /\ exc' = msg
            /\ IF Retries(msg)
               THEN /\ \E j \in JitterDraws : wait' = Backoff(attempt, j)
                    /\ pc' = "backoff"
                    /\ UNCHANGED error
               ELSE /\ Raise(ServiceError(msg))
                    /\ UNCHANGED wait
            /\ UNCHANGED <<response, attempt, stages>>
    /\ UNCHANGED <<timeout, max_retries, uploaded_file, delays>>
    /\ UNCHANGED <<waiterVars, parseVars>>

\* A loop that does not sleep after the failure of the last attempt.
generate_backoff_skip_last ==
    /\ pc = "backoff"
    /\ delays' = IF attempt + 1 < max_retries THEN delays + 1 ELSE delays
    /\ attempt' = attempt + 1
    /\ pc' = "generate"
    /\ UNCHANGED <<timeout, max_retries, stages, uploaded_file>>
    /\ UNCHANGED <<invocations, exc, wait, response>>
    /\ UNCHANGED <<waiterVars, parseVars, error>>

\* Line 49: time.sleep(wait), then the next round of the loop.
generate_backoff ==
    /\ pc = "backoff"
    /\ delays' = delays + 1
    /\ attempt' = attempt + 1
    /\ pc' = "generate"
    /\ UNCHANGED <<timeout, max_retries, stages, uploaded_file>>
    /\ UNCHANGED <<invocations, exc, wait, response>>
    /\ UNCHANGED <<waiterVars, parseVars, error>>

\* Line 53: the loop ran out.
generate_exhausted ==
    /\ pc = "generate"
    /\ ~HasAttempt(attempt, max_retries)
    /\ Raise(RetriesExhausted)
    /\ UNCHANGED <<timeout, max_retries, stages, uploaded_file>>
    /\ UNCHANGED <<waiterVars, retryVars, parseVars>>

\* Line 130.
extract_text ==
    /\ pc = "extract_text"
    /\ IF ConcatRaises(AllParts(response.candidates))
       THEN Raise(TypeError) /\ UNCHANGED text
       ELSE /\ text' = extract_text_from_response(response)
            /\ pc' = "extract_json"
            /\ UNCHANGED error
    /\ UNCHANGED <<timeout, max_retries, stages, uploaded_file, cleaned, schema, result>>
    /\ UNCHANGED <<waiterVars, retryVars>>

\* A parse step that swallows the decode error and goes on with an empty
\* mapping.
extract_json_lenient ==
    /\ pc = "extract_json"
    /\ cleaned' = CleanText(text)
    /\ LET parsed == extract_json_from_text(text)
       IN  schema' = IF parsed.ok THEN parsed.val ELSE JObject(<<>>)
    /\ pc' = "metrics"
    /\ UNCHANGED <<timeout, max_retries, stages, uploaded_file, text, result, error>>
    /\ UNCHANGED <<waiterVars, retryVars>>

\* Line 131.
extract_json ==
    /\ pc = "extract_json"
    /\ cleaned' = CleanText(text)
    /\ LET parsed == extract_json_from_text(text)
       IN  IF parsed.ok
           THEN schema' = parsed.val /\ pc' = "metrics" /\ UNCHANGED error
           ELSE Raise(JSONDecodeError) /\ UNCHANGED schema
    /\ UNCHANGED <<timeout, max_retries, stages, uploaded_file, text, result>>
    /\ UNCHANGED <<waiterVars, retryVars>>

\* A check that lets arrays through as well.
IsMappingOrArray(v) == v.kind \in {"object", "array"}

\* Line 141: item assignment with a string key works on a dict only.
IsMapping(v) == v.kind = "object"

\* Lines 134-156: usage = response.usage_metadata and its counters; the
\* cost; schema["metrics"] = {...}; return schema.  The stage durations
\* measured earlier are read here for the first time and are drawn here.
attach_metrics ==
    /\ pc = "metrics"
    /\ LET usage == response.usage_metadata
       IN  IF ~usage.set
           THEN Raise(AttributeError) /\ UNCHANGED result
           ELSE IF ~IsMapping(schema)
           THEN Raise(TypeError) /\ UNCHANGED result
           ELSE /\ \E cost \in CostRoundings(OrZero(usage.prompt_token_count),
                                            OrZero(usage.candidates_token_count)) :
                    \E upload_time \in StageTimes, inference_time \in StageTimes,
                       text_time \in StageTimes, json_time \in StageTimes :
                        result' = JObject(SetKey(schema.items, MetricsKey,
                                     Metrics(usage, cost,
                                             Timings(upload_time, elapsed, inference_time,
                                                     text_time, json_time))))
                /\ pc' = "returned"
                /\ UNCHANGED error
    /\ UNCHANGED <<timeout, max_retries, stages, uploaded_file, text, cleaned, schema>>
    /\ UNCHANGED <<waiterVars, retryVars>>

Next ==
    \/ upload
    \/ wait_check
    \/ wait_poll
    \/ wait_sleep
    \/ generate_call
    \/ generate_backoff
    \/ generate_exhausted
    \/ extract_text
    \/ extract_json
    \/ attach_metrics

Spec == Init /\ [][Next]_vars

\* wait_for_file_active and generate_with_retry take timeout and
\* max_retries as arguments: the values a call can pass beside the defaults.
TimeoutValues == {-1, 0, 5}
RetryValues   == {0, 1, 3}

\* The run with the two arguments passed explicitly.
InitCall ==
    /\ pc = "upload"
    /\ timeout \in TimeoutValues
    /\ max_retries \in RetryValues
    /\ stages = <<"upload">>
    /\ uploaded_file = NoFile
    /\ elapsed = 0
    /\ file_info = NoFile
    /\ slept = 0
    /\ active_file = NoFile
    /\ attempt = 0
    /\ invocations = 0
    /\ exc = <<>>
    /\ wait = 0
    /\ delays = 0
    /\ response = NoResponse
    /\ text = <<>>
    /\ cleaned = <<>>
    /\ schema = JNull
    /\ result = JNull
    /\ error = NoError

SpecCall == InitCall /\ [][Next]_vars

\* Every remote call returns or raises and every sleep ends, so a step that
\* can be taken is taken.
FairCall == InitCall /\ [][Next]_vars /\ WF_vars(Next)

(***************************************************************************)
(* Properties                                                              *)
(***************************************************************************)
\* The step that calls generate_content.
Invokes == pc = "generate" /\ invocations' = invocations + 1

\* The messages of ErrorMessages that contain "503", or "overloaded" in some
\* letter case, and those that contain neither.
TransientMessages ==
    {Msg503, MsgErr503, MsgOverloaded, MsgOverloadedUpper, MsgOverloadedMixed}
TerminalMessages == {Msg500, MsgLoaded}

\* C1: when attempt k of generate_with_retry fails with a message that
\* contains "503" or "overloaded" in any letter case, the delay computed
\* lies in [2^k, 2^k + 1) seconds, the retrier sleeps once and moves to
\* attempt k + 1, and whenever an attempt number below the cap is reached
\* the only step is the inference call of that attempt.
C1_TransientRetriedWithBackoff ==
    [][ /\ (Invokes /\ exc' \in TransientMessages)
            => /\ pc' = "backoff"
               /\ attempt' = attempt
               /\ wait' >= Pow2(attempt) * JitterSteps
               /\ wait' < (Pow2(attempt) + 1) * JitterSteps
               /\ error' = NoError
        /\ (pc = "backoff")
            => /\ pc' = "generate"
               /\ attempt' = attempt + 1
               /\ delays' = delays + 1
               /\ wait' = wait
               /\ invocations' = invocations
        /\ (pc = "generate" /\ attempt < max_retries)
            => invocations' = invocations + 1 ]_vars

\* C1 witness: a second or later attempt is about to be made after an
\* upper-case OVERLOADED failure whose delay had a non-zero jitter.
C1_Witness ==
    /\ pc = "generate"
    /\ attempt >= 1
    /\ attempt < max_retries
    /\ exc = MsgOverloadedUpper
    /\ wait > Pow2(attempt - 1) * JitterSteps
    /\ delays = attempt

\* C2: when an attempt fails with a message containing neither "503" nor
\* "overloaded", that error leaves generate_with_retry at once: no delay is
\* computed or slept, and nothing runs after it, at any attempt number.
C2_TerminalPropagatesImmediately ==
    [][ /\ (Invokes /\ exc' \in TerminalMessages)
            => /\ pc' = "raised"
               /\ error' = ServiceError(exc')
               /\ wait' = wait
               /\ delays' = delays
               /\ attempt' = attempt
        /\ (error.type = "ServiceError") => FALSE ]_vars

\* C2 witness: a terminal error raised at the third attempt, after two
\* backoff delays.
C2_Witness ==
    /\ pc = "raised"
    /\ error = ServiceError(Msg500)
    /\ attempt = 2
    /\ delays = 2
    /\ invocations = 3

\* C3: RetriesExhausted is raised exactly when max_retries attempts have
\* failed with a transient error: max_retries invocations were made, the
\* error differs from the last transient error, and a run that ends after
\* max_retries transient failures ends with it.
C3_RetriesExhausted ==
    /\ (error = RetriesExhausted)
        => /\ pc = "raised"
           /\ invocations = max_retries
           /\ attempt = max_retries
           /\ exc \in TransientMessages
           /\ error # ServiceError(exc)
           /\ error.msg # exc
    /\ (pc = "raised" /\ invocations = max_retries /\ exc \in TransientMessages)
        => error = RetriesExhausted
    /\ (pc = "generate" /\ invocations < max_retries) => attempt < max_retries

\* C3 witness: all attempts failed with "503".
C3_Witness ==
    /\ error = RetriesExhausted
    /\ exc = Msg503
    /\ invocations = DefaultMaxRetries

C5_ReturnsOnActivePoll ==
    /\ [](/\ (active_file # NoFile)
              => /\ active_file = file_info
                 /\ active_file.state = "ACTIVE"
                 /\ active_file.polled_at = elapsed
          /\ (pc = "wait_poll" /\ file_info # NoFile)
              => /\ slept = PollInterval
                 /\ elapsed = file_info.polled_at + PollInterval)
    /\ [][ /\ (active_file' # active_file) => pc = "wait_poll"
           /\ (active_file # NoFile)
               => (file_info' = file_info /\ elapsed' = elapsed)
           /\ (pc = "wait_poll" /\ pc' = "generate")
               => (file_info'.state = "ACTIVE" /\ file_info'.polled_at = elapsed') ]_vars

\* C5 witness: the wait returned from its third or a later poll.
C5_Witness ==
    /\ pc = "generate"
    /\ active_file.state = "ACTIVE"
    /\ active_file.polled_at >= 2 * PollInterval + 1

\* C6: once a poll has reported FAILED the asset is not polled again (the
\* descriptor of that poll stays the last one).
C6_FailedIsNotPolledAgain ==
    [][ file_info.state = "FAILED" => file_info' = file_info ]_vars

StageOrder == <<"upload", "activate", "infer", "parse">>

\* The stage a position of the run belongs to.
StageOf(p) ==
    CASE p = "upload" -> 1
      [] p \in {"wait_check", "wait_poll", "wait_sleep"} -> 2
      [] p \in {"generate", "backoff"} -> 3
      [] OTHER -> 4

\* The stage each kind of error is raised in.
StageOfError(type) ==
    CASE type = "UploadError" -> 1
      [] type \in {"PollError", "TimeoutError"} -> 2
      [] type \in {"ServiceError", "RuntimeError"} -> 3
      [] OTHER -> 4

\* C7: the stages start in the order upload, activate, infer, parse, each
\* one only after the stage before it completed successfully; an error of
\* any stage ends the run in that stage, with no result and no later step.
C7_StagesInOrder ==
    /\ [](/\ Len(stages) \in 1..4
          /\ stages = SubSeq(StageOrder, 1, Len(stages))
          /\ (Len(stages) >= 2) => uploaded_file # NoFile
          /\ (Len(stages) >= 3) => active_file.state = "ACTIVE"
          /\ (Len(stages) >= 4) => response \in Responses
          /\ (pc = "raised") <=> (error # NoError)
          /\ (pc = "raised") => (result = JNull /\ Len(stages) = StageOfError(error.type))
          /\ (pc \notin {"raised", "returned"}) => (Len(stages) = StageOf(pc))
          /\ (pc = "returned") => (stages = StageOrder /\ result # JNull))
    /\ [][ /\ (pc = "raised") => FALSE
           /\ Len(stages') \in {Len(stages), Len(stages) + 1} ]_vars

\* C7 witness: the inference stage failed with RetriesExhausted, so parse
\* never started.
C7_Witness ==
    /\ pc = "raised"
    /\ error = RetriesExhausted
    /\ stages = <<"upload", "activate", "infer">>

\* C8: a result is returned only when the cleaned text parsed as JSON; when
\* it does not parse (the reply "not json" among others) the run ends with
\* JSONDecodeError, no schema and no result, and no call of generate_content
\* is made once parsing has started.
C8_SchemaOnlyFromValidJson ==
    /\ [](/\ (pc = "returned")
              => /\ cleaned = CleanText(text)
                 /\ JsonLoads(cleaned).ok
                 /\ schema = JsonLoads(cleaned).val
          /\ (error = JSONDecodeError)
              => /\ pc = "raised"
                 /\ ~JsonLoads(cleaned).ok
                 /\ schema = JNull
                 /\ result = JNull
          /\ (text = TxtNotJson /\ pc \in {"metrics", "returned", "raised"})
              => error = JSONDecodeError)
    /\ [][ (Len(stages) = 4) => invocations' = invocations ]_vars

\* C8 witness: the reply "not json" arrived at the second attempt and ended
\* the run with JSONDecodeError.
C8_Witness ==
    /\ error = JSONDecodeError
    /\ text = TxtNotJson
    /\ invocations = 2
    /\ result = JNull

\* C9: for every valid JSON text T, a run whose reply is T inside a json
\* fence parses to the object that extract_json_from_text gives for T alone.
C9_FencedSameAsUnwrapped ==
    \A T \in JsonTexts :
        (text = WrapJson(T) /\ pc \in {"metrics", "returned", "raised"})
            => /\ error # JSONDecodeError
               /\ extract_json_from_text(T).ok
               /\ schema = extract_json_from_text(T).val

\* A text with no json opener and fewer than two fence markers holds no
\* fenced block.
NoFencedBlock(t) ==
    /\ ~Contains(t, JsonFence)
    /\ LET p == Find(t, Fence, 1)
       IN  p = 0 \/ Find(t, Fence, p + Len(Fence)) = 0

\* C10: when the text holds no fenced block, the string handed to
\* json.loads is the text with leading and trailing whitespace trimmed.
C10_UnfencedTextOnlyTrimmed ==
    (NoFencedBlock(text) /\ (pc \in {"metrics", "returned"} \/ error = JSONDecodeError))
        => cleaned = Strip(text)

\* extract_text_from_response has run on the response of this run.
TextExtractionDone == Len(stages) = 4 /\ pc # "extract_text"

\* C11: once extract_text_from_response has run, it has returned the texts
\* of the parts, in order, stripped; a part without text (attribute absent,
\* or present and None) was skipped and no error came out of it.
C11_TextOfAllPartsNoError ==
    TextExtractionDone
        => /\ ~(error = TypeError /\ cleaned = <<>>)
           /\ (error # TypeError)
               => text = Strip(ConcatText(AllParts(response.candidates)))

\* The metrics of a returned result and the usage counters of its response.
ResultMetrics == GetKey(result.items, MetricsKey)
InputTokens ==
    IF response.usage_metadata.prompt_token_count.set
    THEN response.usage_metadata.prompt_token_count.n ELSE 0
OutputTokens ==
    IF response.usage_metadata.candidates_token_count.set
    THEN response.usage_metadata.candidates_token_count.n ELSE 0
CostMillionths == GetKey(ResultMetrics.items, <<"estimated_cost_usd">>).num

\* C12: the estimated cost of a returned result, in millionths of a dollar,
\* is (30 i + 250 o) / 100 rounded to a nearest integer, i and o being the
\* token counts with a missing counter taken as 0; (1,000,000, 0) gives
\* 0.30, (0, 1,000,000) gives 2.50 and (500,000, 200,000) gives 0.65.
C12_EstimatedCost ==
    (pc = "returned")
        => /\ 100 * CostMillionths - (30 * InputTokens + 250 * OutputTokens) \in -50..50
           /\ (InputTokens = 1000000 /\ OutputTokens = 0) => CostMillionths = 300000
           /\ (InputTokens = 0 /\ OutputTokens = 1000000) => CostMillionths = 2500000
           /\ (InputTokens = 500000 /\ OutputTokens = 200000) => CostMillionths = 650000

\* C12 witness: a result for 7 input and 3 output tokens, whose exact cost
\* 9.6 millionths is rounded up to 10.
C12_Witness ==
    /\ pc = "returned"
    /\ InputTokens = 7
    /\ OutputTokens = 3
    /\ CostMillionths = 10

TimingKeys ==
    {<<"upload">>, <<"file_processing">>, <<"inference">>, <<"text_extraction">>,
     <<"json_parsing">>, <<"total_execution">>}

\* C13: a returned result has exactly one "metrics" key; it holds the token
\* counts of this run's response, a cost, and the six timings, none of them
\* negative, file_processing being this run's wait; a "metrics" value of the
\* model's JSON is replaced, and every other key of the parsed JSON is in
\* the result with its value, in its place.
C13_MetricsAttached ==
    (pc = "returned")
        => /\ Cardinality({i \in 1..Len(result.items) : result.items[i].key = MetricsKey}) = 1
           /\ ResultMetrics.kind = "object"
           /\ GetKey(ResultMetrics.items, <<"input_tokens">>) = JNumber(InputTokens)
           /\ GetKey(ResultMetrics.items, <<"output_tokens">>) = JNumber(OutputTokens)
           /\ HasKey(ResultMetrics.items, <<"estimated_cost_usd">>)
           /\ CostMillionths >= 0
           /\ LET t == GetKey(ResultMetrics.items, <<"timings_seconds">>)
              IN  /\ \A k \in TimingKeys :
                        HasKey(t.items, k) /\ GetKey(t.items, k).num >= 0
                  /\ GetKey(t.items, <<"file_processing">>).num = elapsed
           /\ \A i \in 1..Len(schema.items) :
                 /\ result.items[i].key = schema.items[i].key
                 /\ (schema.items[i].key # MetricsKey)
                     => result.items[i].val = schema.items[i].val
           /\ Len(result.items)
                = Len(schema.items) + (IF HasKey(schema.items, MetricsKey) THEN 0 ELSE 1)

\* C13 witness: the model's JSON had a "metrics" key of its own, and the
\* result holds this run's metrics there and the other key unchanged.
C13_Witness ==
    /\ pc = "returned"
    /\ HasKey(schema.items, MetricsKey)
    /\ GetKey(schema.items, MetricsKey) = JNumber(1)
    /\ ResultMetrics.kind = "object"
    /\ GetKey(result.items, <<"a">>) = JNumber(1)

\* extract_json_from_text has run on the text of this run.
JsonExtractionDone == Len(stages) = 4 /\ pc \notin {"extract_text", "extract_json"}

\* C14: when the text holds a json opener, the string parsed is what lies
\* between the first opener and the next fence marker after it, or the
\* whole remainder when no marker follows, trimmed; what precedes the
\* opener and what follows that marker, later blocks included, is dropped.
C14_FirstJsonBlockOnly ==
    (JsonExtractionDone /\ Contains(text, JsonFence))
        => LET from  == Find(text, JsonFence, 1) + Len(JsonFence)
               close == Find(text, Fence, from)
           IN  cleaned = Strip(IF close = 0
                               THEN Slice(text, from, Len(text))
                               ELSE Slice(text, from, close - 1))

\* C14 witness: of two json blocks the first one was parsed and returned.
C14_Witness ==
    /\ pc = "returned"
    /\ text = WrapTwice(TxtObject, TxtEmpty)
    /\ cleaned = TxtObject
    /\ schema = JObject(<<Item(<<"a">>, JNumber(1))>>)

\* C15: every transient failure is followed by one backoff sleep, the
\* failure of the last permitted attempt included: between attempts the
\* sleeps taken equal the failed invocations, a success or a terminal error
\* comes after one sleep per earlier failure, and RetriesExhausted comes
\* after max_retries sleeps, the last of them in
\* [2^(max_retries-1), 2^(max_retries-1) + 1) seconds.
C15_DelayAfterEveryTransientFailure ==
    /\ (pc = "generate") => (delays = invocations /\ delays = attempt)
    /\ (pc = "backoff") => (delays = invocations - 1 /\ exc \in TransientMessages)
    /\ (Len(stages) = 4 \/ error.type = "ServiceError") => delays = invocations - 1
    /\ (error = RetriesExhausted)
        => /\ delays = max_retries
           /\ invocations = max_retries
           /\ max_retries >= 1
           /\ wait >= Pow2(max_retries - 1) * JitterSteps
           /\ wait < (Pow2(max_retries - 1) + 1) * JitterSteps

\* C15 witness: RetriesExhausted after five sleeps, the last one longer
\* than 16 seconds.
C15_Witness ==
    /\ error = RetriesExhausted
    /\ delays = DefaultMaxRetries
    /\ wait > Pow2(DefaultMaxRetries - 1) * JitterSteps

\* C16: one call of generate_with_retry makes at most max_retries
\* invocations and none after its first success or after an error; with
\* max_retries = 0 it makes none and raises RetriesExhausted.
C16_AtMostMaxRetriesInvocations ==
    /\ [](/\ invocations <= max_retries
          /\ (Len(stages) = 4) => invocations >= 1
          /\ (max_retries = 0 /\ Len(stages) >= 3)
              => /\ invocations = 0
                 /\ pc \in {"generate", "raised"}
                 /\ (pc = "raised") => error = RetriesExhausted)
    /\ [][ /\ (Len(stages) = 4 \/ pc = "raised") => invocations' = invocations
           /\ (pc = "generate" /\ max_retries = 0)
               => (pc' = "raised" /\ error' = RetriesExhausted) ]_vars

\* C16 witness: with max_retries = 0 the call ended in RetriesExhausted
\* without an invocation.
C16_Witness ==
    /\ max_retries = 0
    /\ error = RetriesExhausted
    /\ invocations = 0
    /\ delays = 0

\* C18: a poll is started only while the elapsed time is below the
\* timeout; TimeoutError is raised only by a deadline check that finds the
\* elapsed time at or past the timeout, so with timeout <= 0 it is raised
\* before any poll; an ACTIVE reported by a poll is accepted whatever the
\* time at which the poll returns.
C18_DeadlineCheckedBeforePoll ==
    /\ [](/\ (pc = "wait_poll") => elapsed < timeout
          /\ (error = TimeoutError) => elapsed >= timeout
          /\ (timeout <= 0 /\ Len(stages) >= 2 /\ pc # "wait_check")
              => (error = TimeoutError /\ file_info = NoFile))
    /\ [][ /\ (error' = TimeoutError /\ error # TimeoutError)
               => (pc = "wait_check" /\ elapsed >= timeout /\ elapsed' = elapsed)
           /\ (pc = "wait_poll" /\ file_info' # file_info /\ file_info'.state = "ACTIVE")
               => (pc' = "generate" /\ active_file' = file_info' /\ error' = NoError) ]_vars

\* C18 witness: the wait returned an ACTIVE descriptor whose poll ended
\* after the deadline.
C18_Witness ==
    /\ pc = "generate"
    /\ active_file.state = "ACTIVE"
    /\ timeout > 0
    /\ active_file.polled_at > timeout

\* C19: every run ends, returning a result or raising an error.
C19_RunEnds == <>(pc \in {"returned", "raised"})

\* C19 witness: a run that waited up to the deadline for ACTIVE, used all
\* of its three attempts and returned.
C19_Witness ==
    /\ pc = "returned"
    /\ timeout > 0
    /\ elapsed >= timeout
    /\ max_retries = 3
    /\ invocations = max_retries

\* C17: a result is returned only for a parsed JSON object; when the reply
\* parses as JSON of another kind, attaching the metrics raises TypeError,
\* the run ends there and no result is returned.
C17_ResultOnlyForMapping ==
    /\ (pc = "returned") => (schema.kind = "object" /\ result.kind = "object")
    /\ (/\ JsonExtractionDone
        /\ pc # "metrics"
        /\ JsonLoads(cleaned).ok
        /\ JsonLoads(cleaned).val.kind \in {"array", "string", "number", "true", "false", "null"})
        => /\ pc = "raised"
           /\ error = TypeError
           /\ schema = JsonLoads(cleaned).val
           /\ result = JNull

\* C17 witness: the reply [1] parsed as an array and the run ended with
\* TypeError.
C17_Witness ==
    /\ pc = "raised"
    /\ error = TypeError
    /\ cleaned = TxtArray
    /\ schema.kind = "array"
    /\ result = JNull

====
